---- MODULE Spec2Model ----
(***************************************************************************)
(* Ethr: the TCP traceroute / MTR client (src/client/tcp/traceroute.go)    *)
(* and the measurement server (src/server.go).                             *)
(*                                                                         *)
(* Four state machines share this module, each with its own                *)
(* specification:                                                          *)
(*   SpecLat   srvrRunTCPLatencyTest: one latency connection               *)
(*   SpecTR    TestTraceRoute / discoverHops / probeHop                    *)
(*   SpecTcp   TCP connection handlers over the test registry              *)
(*   SpecUdp   UDP packet workers and their reapers over the registry      *)
(* The variables of the machines a specification does not run keep their   *)
(* initial values.                                                         *)
(***************************************************************************)
EXTENDS Integers, Sequences, FiniteSets, TLC

(***************************************************************************)
(* Bounds of the model.                                                    *)
(***************************************************************************)
\* rttCount is enumerated exhaustively in 1..MaxRtt (plus LargeRttCounts)
MaxRtt == 4
\* latency samples are durations in 1..MaxSample
MaxSample == 3
\* maxHops is drawn from 1..MaxHopsBound
MaxHopsBound == 3
\* elapsed times of probes are durations in 1..MaxElapsed
MaxElapsed == 2
\* iterations one probeHops goroutine starts
MaxSeq == 2
\* TCP connection handlers that can be alive at once
NumTcp == 2
\* UDP packet workers (runtime.NumCPU())
NumUdp == 2
\* TCP connections accepted plus UDP datagrams read in a run
MaxEvents == 3
\* a datagram carries 1..MaxBytes bytes; clientParam.BufferSize is in the
\* same range
MaxBytes == 2
\* iterations of one bandwidth connection that complete without error
MaxIters == 2

VARIABLES
    \* ---- srvrRunTCPLatencyTest ----
    rttCount,        \* clientParam.RttCount (uint32)
    latencyNumbers,  \* the batch: a multiset of samples, value |-> multiplicity
    latPc,           \* "sync" | "batch" | "emitted" | "panic" | "closed"
    latency,         \* test.testResult.latency
    emitted,         \* arguments of the last ui.emitLatencyResults call
    \* ---- TestTraceRoute / discoverHops / probeHop ----
    maxHops,         \* parameter of TestTraceRoute
    mtrMode,         \* parameter of TestTraceRoute
    mainPc,          \* "discover" | "probe" | "returned" | "done"
    i,               \* loop index of discoverHops
    hopData,         \* local hopData of discoverHops
    hops,            \* hops array of discoverHops (length maxHops)
    dRet,            \* what discoverHops returned: [hops, err]
    result,          \* what TestTraceRoute sent on the results channel
    loops,           \* hop indices (1-based) with a probeHops goroutine
    probe,           \* per caller: the probeHop call in progress
    receiver,        \* per caller: the ICMP receiver goroutine of that call
    orphans,         \* receiver goroutines whose probeHop has returned
    firstDialOk,     \* history: TTL of the first successful dial, 0 if none
    issued,          \* history: TTLs discovery passed to probeHop, in order
    probeLog,        \* history: hopData at the return of each discovery probe
    done,            \* test.Done is closed
    mtr,             \* per hop index: its probeHops goroutine, [pc, seq]
    seen,            \* history: per TTL, elapsed times of its successful probes
    \* ---- server: registry, TCP handlers, UDP workers and reapers ----
    tests,           \* every ethrTest object ever created, by identity
    handler,         \* per TCP handler goroutine: srvrHandleNewTcpConn
    events,          \* TCP connections accepted and UDP datagrams read so far
    worker,          \* per UDP worker: srvrRunUDPPacketHandler's loop
    umap,            \* per UDP worker: its local map tests[server]
    reaper,          \* per UDP worker: its reaper goroutine
    idle,            \* history: per remote, ms since its last datagram
    \* ---- the receiver's test of one quoted packet (probeHop, 142-145) ----
    fp               \* the test's addresses and ports, the TTLs, the index

latVars == <<rttCount, latencyNumbers, latPc, latency, emitted>>

trVars == <<maxHops, mtrMode, mainPc, i, hopData, hops, dRet, result, loops,
            probe, receiver, orphans, firstDialOk, issued, probeLog, done,
            mtr, seen>>

srvVars == <<tests, handler, events, worker, umap, reaper, idle>>

fpVars == <<fp>>

vars == <<latVars, trVars, srvVars, fpVars>>

\* what the actions of one machine leave alone
notLat == <<trVars, srvVars, fpVars>>

notTR == <<latVars, srvVars, fpVars>>

notSrv == <<latVars, trVars, fpVars>>

notFp == <<latVars, trVars, srvVars>>

(***************************************************************************)
(* 32-bit unsigned arithmetic.  A uint32 is the pair <<hi, lo>> of its     *)
(* 16-bit halves, so that products and wrap-around stay exact.             *)
(***************************************************************************)
Half == 2^16

U32(n) == <<(n \div Half) % Half, n % Half>>

\* x * k modulo 2^32, for a small multiplier k
U32Mul(x, k) ==
    LET c == x[2] * k
    IN  <<(x[1] * k + (c \div Half)) % Half, c % Half>>

\* x / d (truncating), for a small divisor d
U32Div(x, d) ==
    LET r == x[1] % d
    IN  <<x[1] \div d, (r * Half + x[2]) \div d>>

\* x - 1 modulo 2^32
U32Dec(x) ==
    IF x[2] > 0 THEN <<x[1], x[2] - 1>>
    ELSE IF x[1] > 0 THEN <<x[1] - 1, Half - 1>>
    ELSE <<Half - 1, Half - 1>>

\* x < n for a slice length n (an int below 2^31)
U32Below(x, n) == x[1] < Half \div 2 /\ x[1] * Half + x[2] < n

U32Val(x) == x[1] * Half + x[2]

(***************************************************************************)
(* srvrRunTCPLatencyTest (src/server.go:184-241)                           *)
(***************************************************************************)
SampleVals == 1..MaxSample

\* rttCount values beyond the exhaustive range: products rttCount*90 etc.
\* exceed 2^32 here
LargeRttCounts == {47721859, 50000000, 85899346}

RttCounts == (1..MaxRtt) \cup LargeRttCounts

\* multiplicities a sample value may have in a batch of n samples
Multiplicities(n) ==
    IF n <= MaxRtt + 1 THEN 0..n
    ELSE {0, n \div 4, n \div 2, n - (n \div 2), n - (n \div 4), n}

RECURSIVE BagSize(_, _)
BagSize(b, v) == IF v = 0 THEN 0 ELSE b[v] + BagSize(b, v - 1)

RECURSIVE BagSum(_, _)
BagSum(b, v) == IF v = 0 THEN 0 ELSE v * b[v] + BagSum(b, v - 1)

\* every batch of n samples the ping-pong loop can record
Batches(n) ==
    {b \in [SampleVals -> Multiplicities(n)] : BagSize(b, MaxSample) = n}

\* make([]time.Duration, rttCount): all zero
ZeroBatch == [v \in SampleVals |-> 0]

\* latencyNumbers[idx] after sort.SliceStable: the idx-th smallest sample
SortedAt(b, idx) ==
    CHOOSE v \in SampleVals :
        /\ BagSize(b, v - 1) <= idx
        /\ idx < BagSize(b, v)

\* rttCountFixed without the special case for rttCount = 1
RttCountNotFixed(n) == n

\* rttCountFixed (lines 222-225)
RttCountFixed(n) == IF n = 1 THEN 2 ELSE n

\* ((rttCountFixed*pct)/100)-1 in uint32 arithmetic (lines 230-233)
PctIndex(n, pct) == U32Dec(U32Div(U32Mul(U32(RttCountFixed(n)), pct), 100))

\* uint64(((float64(rttCountFixed)*99.9)/100)-1) (line 234); the float64
\* expression truncates to rttCountFixed - ceil(rttCountFixed/1000) - 1
P999Index(n) ==
    U32(RttCountFixed(n) - ((RttCountFixed(n) + 999) \div 1000) - 1)

\* uint64(((float64(rttCountFixed)*99.99)/100)-1) (line 235)
P9999Index(n) ==
    U32(RttCountFixed(n) - ((RttCountFixed(n) + 9999) \div 10000) - 1)

\* the indices read at lines 228-235, in the order they are read
LatIndices(n) ==
    <<U32(0), U32(n - 1), PctIndex(n, 50), PctIndex(n, 90), PctIndex(n, 95),
      PctIndex(n, 99), P999Index(n), P9999Index(n)>>

NoResults == [avg |-> 0, min |-> 0, max |-> 0, p50 |-> 0, p90 |-> 0,
              p95 |-> 0, p99 |-> 0, p999 |-> 0, p9999 |-> 0]

\* lines 209-239 on a sorted batch whose indices are all in range
LatResults(n, b) ==
    LET ix == LatIndices(n)
        at(k) == SortedAt(b, U32Val(ix[k]))
    IN  [avg |-> BagSum(b, MaxSample) \div n,
         min |-> at(1), max |-> at(2), p50 |-> at(3), p90 |-> at(4),
         p95 |-> at(5), p99 |-> at(6), p999 |-> at(7), p9999 |-> at(8)]

LatInit ==
    /\ rttCount \in RttCounts
    /\ latencyNumbers = ZeroBatch
    /\ latPc = "sync"
    /\ latency = 0
    /\ emitted = NoResults

LatIdle ==
    /\ rttCount = 1
    /\ latencyNumbers = ZeroBatch
    /\ latPc = "closed"
    /\ latency = 0
    /\ emitted = NoResults

\* lines 189-208: the sync read and rttCount ping-pongs, all without error
LatCollect ==
    /\ latPc \in {"sync", "emitted"}
    /\ \E b \in Batches(rttCount) : latencyNumbers' = b
    /\ latPc' = "batch"
    /\ UNCHANGED <<rttCount, latency, emitted>>
    /\ UNCHANGED notLat

\* lines 190-192, 197-205: a read or write fails and the routine returns
LatIOError ==
    /\ latPc \in {"sync", "emitted"}
    /\ latPc' = "closed"
    /\ UNCHANGED <<rttCount, latencyNumbers, latency, emitted>>
    /\ UNCHANGED notLat

\* lines 209-239: average, sort, percentiles, emit.  The latency counter is
\* swapped at line 226, before the slice reads; a read out of range panics.
LatReport ==
    /\ latPc = "batch"
    /\ latency' = BagSum(latencyNumbers, MaxSample) \div rttCount
    /\ IF \A k \in 1..8 : U32Below(LatIndices(rttCount)[k], rttCount)
       THEN /\ emitted' = LatResults(rttCount, latencyNumbers)
            /\ latPc' = "emitted"
       ELSE /\ latPc' = "panic"
            /\ UNCHANGED emitted
    /\ UNCHANGED <<rttCount, latencyNumbers>>
    /\ UNCHANGED notLat

LatNext == LatCollect \/ LatIOError \/ LatReport

(***************************************************************************)
(* TCP traceroute (src/client/tcp/traceroute.go)                           *)
(*                                                                         *)
(* A caller of probeHop is 0 for discoverHops and j >= 1 for the           *)
(* probeHops goroutine of hops[j-1] (sequences are 1-based here).          *)
(* NetTools (IcmpNewConn, ReceiveICMPFromPeer, Dial) is the environment:   *)
(* every outcome it can report is a nondeterministic choice.               *)
(***************************************************************************)
Callers == 0..MaxHopsBound

Elapsed == 1..MaxElapsed

Routers == {"10.0.0.1", "10.0.0.2"}

\* test.RemoteIP
RemoteIP == "10.0.0.9"

\* localPortNum := uint16(8888) (line 126)
DefaultLocalPort == 8888

\* localPortNum += uint16(hop) (lines 126-130), c.NetTools.LocalPort = 0
LocalPortNum(hop) == (DefaultLocalPort + hop) % 2^16

\* test.RemoteIP, c.NetTools.LocalIP and test.RemotePort of the traceroute
\* runs, and a port no probe of the test uses
RemoteIPBytes == <<10, 0, 0, 9>>

LocalIPBytes == <<192, 168, 1, 10>>

RemotePort == 8080

OtherPort == 443

\* binary.BigEndian.PutUint16 (lines 132, 134)
PutUint16(v) == <<(v \div 2^8) % 2^8, v % 2^8>>

\* b: bigEndian(localPortNum) || bigEndian(remotePortNum) (lines 131-134)
Fingerprint(hop, rport) == PutUint16(LocalPortNum(hop)) \o PutUint16(rport)

\* the first twelve bytes of the IPv4 header of a probe's SYN: version and
\* header length, TOS, total length, id, flags, TTL, protocol, checksum
IpHeaderStart == <<69, 0, 0, 60, 0, 0, 64, 0, 1, 6, 0, 0>>

\* icmpMsg.Body.(*icmp.TimeExceeded).Data (line 143): the IP header of the
\* packet that expired and the first eight bytes of its TCP header (source
\* port, destination port, sequence number)
QuotedPacket(src, dst, lport, rport) ==
    IpHeaderStart \o src \o dst \o PutUint16(lport) \o PutUint16(rport)
        \o <<0, 0, 0, 0>>

\* bytes.Index(body, pat) (line 144): where pat first occurs, from 0, or -1
Index(body, pat) ==
    LET at == {k \in 0..(Len(body) - Len(pat)) :
                  SubSeq(body, k + 1, k + Len(pat)) = pat}
    IN  IF at = {} THEN -1
        ELSE CHOOSE k \in at : \A m \in at : k <= m

\* lines 144-145: index := bytes.Index(body, b[:4]); if index > 0
Accepts(body, hop, rport) == Index(body, Fingerprint(hop, rport)) > 0

\* var hopData payloads.HopData (line 75)
ZeroHop ==
    [Addr |-> "", Name |-> <<>>, FullName |-> <<>>, Sent |-> 0, Rcvd |-> 0,
     Lost |-> 0, Last |-> 0, Best |-> 0, Worst |-> 0, Total |-> 0]

\* the counters and times of a HopData, without the names
Core(hd) ==
    [Addr |-> hd.Addr, Sent |-> hd.Sent, Rcvd |-> hd.Rcvd, Lost |-> hd.Lost,
     Last |-> hd.Last, Best |-> hd.Best, Worst |-> hd.Worst,
     Total |-> hd.Total]

\* calcHopData that leaves Worst alone
calcHopDataNoWorst(hd, peerAddr, elapsed) ==
    [hd EXCEPT !.Addr = peerAddr,
               !.Last = elapsed,
               !.Best = IF @ > elapsed THEN elapsed ELSE @,
               !.Total = @ + elapsed,
               !.Rcvd = @ + 1]

\* calcHopData (lines 183-194)
calcHopData(hd, peerAddr, elapsed) ==
    [hd EXCEPT !.Addr = peerAddr,
               !.Last = elapsed,
               !.Best = IF @ > elapsed THEN elapsed ELSE @,
               !.Worst = IF @ < elapsed THEN elapsed ELSE @,
               !.Total = @ + elapsed,
               !.Rcvd = @ + 1]

\* names net.LookupAddr may answer, as sequences of characters; <<>> stands
\* for an error or an empty answer
DnsAnswers ==
    {<<>>,
     <<"g", "w", ".">>,
     <<"c", "o", "r", "e", "-", "r", "o", "u", "t", "e", "r", "-", "0", "1",
       ".", "e", "x", ".">>}

\* the answer for a router with a short name
DnsAnswers2 == <<"g", "w", ".">>

\* if len(name) > 16 (line 112)
NameCap == 16

\* lookupHopName (lines 97-117): <<tname, name>>
lookupHopName(addr, answer) ==
    IF addr = "" \/ answer = <<>> THEN <<(<<>>), (<<>>)>>
    ELSE LET sz == Len(answer)
             name == IF answer[sz] = "." THEN SubSeq(answer, 1, sz - 1)
                     ELSE answer
             tname == IF Len(name) > NameCap
                      THEN SubSeq(name, 1, NameCap) \o <<".", ".", ".">>
                      ELSE name
         IN  <<tname, name>>

\* what ReceiveICMPFromPeer hands back: nothing (deadline or error), a
\* message of another ICMP type, or a TimeExceeded quoting a TCP header
NoMsg == [type |-> "none", lport |-> 0, rportOk |-> FALSE, peer |-> ""]

\* ReceiveICMPFromPeer(conn, 2s, hopIP): with a non-empty expected peer only
\* that peer's messages are returned
IcmpResults(hopIP) ==
    LET from == IF hopIP = "" THEN Routers ELSE {hopIP}
    IN  {NoMsg}
        \cup {[type |-> "other", lport |-> 0, rportOk |-> FALSE, peer |-> q] :
                q \in from}
        \cup {[type |-> "te", lport |-> LocalPortNum(j), rportOk |-> ok,
               peer |-> q] :
                j \in 1..MaxHopsBound, ok \in BOOLEAN, q \in from}

\* lines 142-145: a TimeExceeded whose body holds the 4-byte fingerprint
\* bigEndian(localPortNum) || bigEndian(remotePortNum)
Matches(msg, hop) ==
    /\ msg.type = "te"
    /\ Accepts(QuotedPacket(LocalIPBytes, RemoteIPBytes, msg.lport,
                            IF msg.rportOk THEN RemotePort ELSE OtherPort),
               hop, RemotePort)

\* early is history: the receiver had its matching TimeExceeded while
\* probeHop was still in Dial
IdleProbe ==
    [pc |-> "idle", hop |-> 0, hopIP |-> "", isLast |-> FALSE,
     err |-> "none", early |-> FALSE]

NoReceiver ==
    [pc |-> "none", msg |-> NoMsg, peerAddr |-> "", early |-> FALSE]

\* a receiver that is not started
UnspawnedReceiver ==
    [pc |-> "none", msg |-> NoMsg, peerAddr |-> "", early |-> FALSE]

\* go func() { ... }() (line 137): the receiver at its first
\* ReceiveICMPFromPeer
SpawnedReceiver ==
    [pc |-> "recv", msg |-> NoMsg, peerAddr |-> "", early |-> FALSE]

\* the HopData a caller's probe writes through its hopData pointer
HD(c) == IF c = 0 THEN hopData ELSE hops[c]

\* the hops array with caller c's HopData replaced
HopsWith(c, hd) == IF c = 0 THEN hops ELSE [hops EXCEPT ![c] = hd]

\* history of discovery: the HopData at each return of probeHop
LogReturn(c, hd) == IF c = 0 THEN Append(probeLog, Core(hd)) ELSE probeLog

\* the receiver goroutine after its probeHop returned (defer icmpConn.Close,
\* line 125): it has finished, or it is left behind
ReceiverAtReturn(c, r) ==
    /\ receiver' = [receiver EXCEPT ![c] = NoReceiver]
    /\ orphans' = IF r.pc \in {"none", "done"} THEN orphans ELSE orphans + 1

\* lines 119-154: open the ICMP listener, spawn the receiver.
\* hd is the HopData the caller passes.
ProbeCall(c, hop, hopIP, hd) ==
    /\ probe[c].pc = "idle"
    /\ \/ \* IcmpNewConn fails (lines 121-124)
          /\ probe' = [probe EXCEPT ![c] =
                 [pc |-> "ret", hop |-> hop, hopIP |-> hopIP,
                  isLast |-> FALSE, err |-> "icmp", early |-> FALSE]]
          /\ probeLog' = LogReturn(c, hd)
          /\ UNCHANGED receiver
       \/ \* the listener is open, the receiver runs (lines 125-154)
          /\ probe' = [probe EXCEPT ![c] =
                 [pc |-> "dial", hop |-> hop, hopIP |-> hopIP,
                  isLast |-> FALSE, err |-> "none", early |-> FALSE]]
          /\ receiver' = [receiver EXCEPT ![c] = SpawnedReceiver]
          /\ UNCHANGED probeLog
    /\ UNCHANGED <<orphans, firstDialOk>>

\* the end of probeHop without Lost++
ProbeOutcomeNoLost(c, hd, peerAddr, elapsed) ==
    IF peerAddr = "" \/ (probe[c].hopIP # "" /\ peerAddr # probe[c].hopIP)
    THEN [hd |-> hd, err |-> "lost"]
    ELSE [hd |-> calcHopData(hd, peerAddr, elapsed), err |-> "none"]

\* the end of probeHop without the comparison with hopIP
ProbeOutcomeUngated(c, hd, peerAddr, elapsed) ==
    IF peerAddr = ""
    THEN [hd |-> [hd EXCEPT !.Lost = @ + 1], err |-> "lost"]
    ELSE [hd |-> calcHopData(hd, peerAddr, elapsed), err |-> "none"]

\* lines 174-180 on the HopData hd: count the probe as lost or aggregate it
ProbeOutcome(c, hd, peerAddr, elapsed) ==
    IF peerAddr = "" \/ (probe[c].hopIP # "" /\ peerAddr # probe[c].hopIP)
    THEN [hd |-> [hd EXCEPT !.Lost = @ + 1], err |-> "lost"]
    ELSE [hd |-> calcHopData(hd, peerAddr, elapsed), err |-> "none"]

\* lines 174-180 and the return
ProbeFinish(c, hd, peerAddr, elapsed, isLast) ==
    LET out == ProbeOutcome(c, hd, peerAddr, elapsed)
    IN  /\ hopData' = IF c = 0 THEN out.hd ELSE hopData
        /\ hops' = HopsWith(c, out.hd)
        /\ probe' = [probe EXCEPT ![c].pc = "ret", ![c].isLast = isLast,
                                  ![c].err = out.err,
                                  ![c].early = receiver[c].early]
        /\ probeLog' = LogReturn(c, out.hd)
        /\ seen' = IF out.err = "none"
                   THEN [seen EXCEPT ![probe[c].hop] = @ \cup {elapsed}]
                   ELSE seen

\* lines 156-172: the dial, hopData.Sent++, and on success the rest of
\* probeHop
ProbeDial(c) ==
    /\ probe[c].pc = "dial"
    /\ LET hd == [HD(c) EXCEPT !.Sent = @ + 1]
       IN  \/ \* the dial fails: wait for the receiver (lines 164-166)
              /\ probe' = [probe EXCEPT ![c].pc = "waitEnd"]
              /\ hopData' = IF c = 0 THEN hd ELSE hopData
              /\ hops' = HopsWith(c, hd)
              /\ UNCHANGED <<receiver, orphans, firstDialOk, probeLog, seen>>
           \/ \* the dial succeeds (lines 167-172); the channels are not read
              /\ \E e \in Elapsed : ProbeFinish(c, hd, RemoteIP, e, TRUE)
              /\ ReceiverAtReturn(c, receiver[c])
              /\ firstDialOk' = IF c = 0 /\ firstDialOk = 0
                                THEN probe[c].hop ELSE firstDialOk
    /\ UNCHANGED <<maxHops, mtrMode, mainPc, i, dRet, result, loops, issued>>
    /\ UNCHANGED <<done, mtr>>
    /\ UNCHANGED notTR

\* line 141: one call of ReceiveICMPFromPeer returns
ReceiveICMP(c) ==
    /\ receiver[c].pc = "recv"
    /\ \E m \in IcmpResults(probe[c].hopIP) :
           receiver' = [receiver EXCEPT ![c].pc = "check", ![c].msg = m]
    /\ UNCHANGED <<maxHops, mtrMode, mainPc, i, hopData, hops, dRet, result,
                   loops, probe, orphans, firstDialOk, issued, probeLog>>
    /\ UNCHANGED <<done, mtr, seen>>
    /\ UNCHANGED notTR

\* lines 142-150: break on a matching TimeExceeded, otherwise loop; the
\* error of ReceiveICMPFromPeer is not looked at
CheckICMP(c) ==
    /\ receiver[c].pc = "check"
    /\ receiver' = [receiver EXCEPT ![c] =
           IF Matches(receiver[c].msg, probe[c].hop)
           THEN [pc |-> "sendEnd", msg |-> NoMsg,
                 peerAddr |-> receiver[c].msg.peer,
                 early |-> probe[c].pc = "dial"]
           ELSE SpawnedReceiver]
    /\ UNCHANGED <<maxHops, mtrMode, mainPc, i, hopData, hops, dRet, result,
                   loops, probe, orphans, firstDialOk, issued, probeLog>>
    /\ UNCHANGED <<done, mtr, seen>>
    /\ UNCHANGED notTR

\* lines 152 and 165: the rendezvous on endTimeChan
EndTimeRendezvous(c) ==
    /\ receiver[c].pc = "sendEnd"
    /\ probe[c].pc = "waitEnd"
    /\ receiver' = [receiver EXCEPT ![c].pc = "sendPeer"]
    /\ probe' = [probe EXCEPT ![c].pc = "waitPeer"]
    /\ UNCHANGED <<maxHops, mtrMode, mainPc, i, hopData, hops, dRet, result,
                   loops, orphans, firstDialOk, issued, probeLog>>
    /\ UNCHANGED <<done, mtr, seen>>
    /\ UNCHANGED notTR

\* lines 153 and 166, then lines 174-180: the rendezvous on peerAddrChan
\* and the rest of probeHop
PeerAddrRendezvous(c) ==
    /\ receiver[c].pc = "sendPeer"
    /\ probe[c].pc = "waitPeer"
    /\ \E e \in Elapsed :
           ProbeFinish(c, HD(c), receiver[c].peerAddr, e, FALSE)
    /\ ReceiverAtReturn(c, [receiver[c] EXCEPT !.pc = "done"])
    /\ UNCHANGED <<maxHops, mtrMode, mainPc, i, dRet, result, loops,
                   firstDialOk, issued>>
    /\ UNCHANGED <<done, mtr>>
    /\ UNCHANGED notTR

\* return hops[:i+1], nil (line 91); idx is the 0-based i
DiscoverResultAll(hs, idx) == hs

DiscoverResult(hs, idx) == SubSeq(hs, 1, idx + 1)

\* lines 74-76: the next iteration of discoverHops calls probeHop
DiscoverProbe ==
    /\ mainPc = "discover"
    /\ i < maxHops
    /\ hopData' = ZeroHop
    /\ ProbeCall(0, i + 1, "", ZeroHop)
    /\ issued' = Append(issued, i + 1)
    /\ mainPc' = "probe"
    /\ UNCHANGED <<maxHops, mtrMode, i, hops, dRet, result, loops>>
    /\ UNCHANGED <<done, mtr, seen>>
    /\ UNCHANGED notTR

\* lines 77-94: probeHop returned; name the hop, store it, return or loop
DiscoverStore ==
    /\ mainPc = "probe"
    /\ probe[0].pc = "ret"
    /\ \E answer \in DnsAnswers :
         LET names == lookupHopName(hopData.Addr, answer)
             hd == IF probe[0].err = "none"
                   THEN [hopData EXCEPT !.Name = names[1],
                                        !.FullName = names[2]]
                   ELSE hopData
             stored == [hops EXCEPT ![i + 1] = hd]
         IN  /\ hopData' = hd
             /\ hops' = stored
             /\ IF probe[0].isLast
                THEN /\ dRet' = [hops |-> DiscoverResult(stored, i),
                                 err |-> "none"]
                     /\ mainPc' = "returned"
                     /\ i' = i
                ELSE IF i + 1 < maxHops
                THEN /\ mainPc' = "discover"
                     /\ i' = i + 1
                     /\ UNCHANGED dRet
                ELSE /\ dRet' = [hops |-> <<>>, err |-> "ErrNotExist"]
                     /\ mainPc' = "returned"
                     /\ i' = i + 1
    /\ probe' = [probe EXCEPT ![0] = IdleProbe]
    /\ UNCHANGED <<maxHops, mtrMode, result, loops, receiver, orphans,
                   firstDialOk, issued, probeLog>>
    /\ UNCHANGED <<done, mtr, seen>>
    /\ UNCHANGED notTR

\* lines 22-50: TestTraceRoute sends the result and, in MTR mode, starts a
\* probeHops goroutine for every hop with an address
TraceRouteDeliver ==
    /\ mainPc = "returned"
    /\ result' = [delivered |-> TRUE, Success |-> dRet.err = "none",
                  Hops |-> dRet.hops]
    /\ loops' = IF dRet.err = "none" /\ mtrMode
                THEN {j \in 1..Len(dRet.hops) : dRet.hops[j].Addr # ""}
                ELSE {}
    /\ mainPc' = "done"
    /\ UNCHANGED <<maxHops, mtrMode, i, hopData, hops, dRet, probe, receiver,
                   orphans, firstDialOk, issued, probeLog>>
    /\ UNCHANGED <<done, mtr, seen>>
    /\ UNCHANGED notTR

TRInit ==
    /\ maxHops \in 1..MaxHopsBound
    /\ mtrMode \in BOOLEAN
    /\ mainPc = "discover"
    /\ i = 0
    /\ hopData = ZeroHop
    /\ hops = [j \in 1..maxHops |-> ZeroHop]
    /\ dRet = [hops |-> <<>>, err |-> "none"]
    /\ result = [delivered |-> FALSE, Success |-> FALSE, Hops |-> <<>>]
    /\ loops = {}
    /\ probe = [c \in Callers |-> IdleProbe]
    /\ receiver = [c \in Callers |-> NoReceiver]
    /\ orphans = 0
    /\ firstDialOk = 0
    /\ issued = <<>>
    /\ probeLog = <<>>
    /\ done = FALSE
    /\ mtr = [j \in 1..MaxHopsBound |-> [pc |-> "select", seq |-> 0]]
    /\ seen = [j \in 1..MaxHopsBound |-> {}]

TRIdle ==
    /\ maxHops = 1
    /\ mtrMode = FALSE
    /\ mainPc = "done"
    /\ i = 0
    /\ hopData = ZeroHop
    /\ hops = <<ZeroHop>>
    /\ dRet = [hops |-> <<>>, err |-> "none"]
    /\ result = [delivered |-> FALSE, Success |-> FALSE, Hops |-> <<>>]
    /\ loops = {}
    /\ probe = [c \in Callers |-> IdleProbe]
    /\ receiver = [c \in Callers |-> NoReceiver]
    /\ orphans = 0
    /\ firstDialOk = 0
    /\ issued = <<>>
    /\ probeLog = <<>>
    /\ done = FALSE
    /\ mtr = [j \in 1..MaxHopsBound |-> [pc |-> "select", seq |-> 0]]
    /\ seen = [j \in 1..MaxHopsBound |-> {}]

\* lines 55-57: select finds test.Done closed and probeHops returns
MtrStop(j) ==
    /\ j \in loops
    /\ mtr[j].pc = "select"
    /\ done
    /\ mtr' = [mtr EXCEPT ![j].pc = "stopped"]
    /\ UNCHANGED <<maxHops, mtrMode, mainPc, i, hopData, hops, dRet, result,
                   loops, probe, receiver, orphans, firstDialOk, issued,
                   probeLog, done, seen>>
    /\ UNCHANGED notTR

\* lines 58-60: test.Done is not closed, the default case calls
\* probeHop(test, hop+1, hops[hop].Addr, &hops[hop])
MtrProbe(j) ==
    /\ j \in loops
    /\ mtr[j].pc = "select"
    /\ ~done
    /\ mtr[j].seq < MaxSeq
    /\ ProbeCall(j, j, hops[j].Addr, hops[j])
    /\ mtr' = [mtr EXCEPT ![j].pc = "probing"]
    /\ UNCHANGED <<maxHops, mtrMode, mainPc, i, hopData, hops, dRet, result,
                   loops, issued, done, seen>>
    /\ UNCHANGED notTR

\* lines 61-67: probeHop returned; seq++, sleep for the rest of gap, and
\* back to the select
MtrIterate(j) ==
    /\ mtr[j].pc = "probing"
    /\ probe[j].pc = "ret"
    /\ probe' = [probe EXCEPT ![j] = IdleProbe]
    /\ mtr' = [mtr EXCEPT ![j] = [pc |-> "select", seq |-> @.seq + 1]]
    /\ UNCHANGED <<maxHops, mtrMode, mainPc, i, hopData, hops, dRet, result,
                   loops, receiver, orphans, firstDialOk, issued, probeLog,
                   done, seen>>
    /\ UNCHANGED notTR

\* the owner of the session closes test.Done; nothing reads it before the
\* probeHops goroutines run
CloseDone ==
    /\ mainPc = "done"
    /\ ~done
    /\ done' = TRUE
    /\ UNCHANGED <<maxHops, mtrMode, mainPc, i, hopData, hops, dRet, result,
                   loops, probe, receiver, orphans, firstDialOk, issued,
                   probeLog, mtr, seen>>
    /\ UNCHANGED notTR

\* the probeHops goroutine of hops[j-1] and its probeHop calls
MtrLoop(j) ==
    \/ MtrStop(j)
    \/ MtrProbe(j)
    \/ MtrIterate(j)
    \/ ProbeDial(j)
    \/ EndTimeRendezvous(j)
    \/ PeerAddrRendezvous(j)

\* what one successful discovery probe leaves in a zero HopData (lines
\* 163 and 183-194), named by lookupHopName
DiscoveredHop(addr, e, answer) ==
    LET names == lookupHopName(addr, answer)
    IN  [calcHopData([ZeroHop EXCEPT !.Sent = 1], addr, e) EXCEPT
            !.Name = names[1], !.FullName = names[2]]

\* discoverHops has just returned from a run with maxHops = 2 in MTR mode:
\* the probe at TTL 1 was answered by router r after e1 (or, with r = "",
\* had no ICMP listener) and the dial at TTL 2 connected after e2
PostDiscovery(r, e1, e2) ==
    LET h1 == IF r = "" THEN ZeroHop
              ELSE DiscoveredHop(r, e1, DnsAnswers2)
        h2 == DiscoveredHop(RemoteIP, e2, <<>>)
    IN  /\ maxHops = 2
        /\ mtrMode = TRUE
        /\ mainPc = "returned"
        /\ i = 1
        /\ hopData = h2
        /\ hops = <<h1, h2>>
        /\ dRet = [hops |-> <<h1, h2>>, err |-> "none"]
        /\ result = [delivered |-> FALSE, Success |-> FALSE, Hops |-> <<>>]
        /\ loops = {}
        /\ probe = [c \in Callers |-> IdleProbe]
        /\ receiver = [c \in Callers |-> NoReceiver]
        /\ orphans = 1
        /\ firstDialOk = 2
        /\ issued = <<1, 2>>
        /\ probeLog = <<Core(h1), Core(h2)>>
        /\ done = FALSE
        /\ mtr = [j \in 1..MaxHopsBound |-> [pc |-> "select", seq |-> 0]]
        /\ seen = [j \in 1..MaxHopsBound |->
                      IF j = 1 /\ r # "" THEN {e1}
                      ELSE IF j = 2 THEN {e2} ELSE {}]

(***************************************************************************)
(* The receiver's test of lines 142-145 as a function of the test's        *)
(* addresses and ports: a TimeExceeded that quotes the probe of TTL quoted *)
(* is looked at by the receiver of the probe of TTL hop.                   *)
(***************************************************************************)
\* destinations and remote ports of a test
DstAddrs == {RemoteIPBytes, <<34, 185, 31, 144>>, <<192, 168, 34, 185>>}

RemotePorts == {RemotePort, 8890, 80}

FpIdle == fp = [pc |-> "idle", dst |-> <<>>, rport |-> 0, quoted |-> 0,
                hop |-> 0, accepted |-> FALSE]

FpInit ==
    \E dst \in DstAddrs, rport \in RemotePorts,
       j \in 1..MaxHopsBound, k \in 1..MaxHopsBound :
        fp = [pc |-> "received", dst |-> dst, rport |-> rport, quoted |-> j,
              hop |-> k, accepted |-> FALSE]

\* lines 143-145 on the TimeExceeded in hand
FpCheck ==
    /\ fp.pc = "received"
    /\ fp' = [fp EXCEPT
           !.pc = "checked",
           !.accepted =
               Accepts(QuotedPacket(LocalIPBytes, fp.dst,
                                    LocalPortNum(fp.quoted), fp.rport),
                       fp.hop, fp.rport)]
    /\ UNCHANGED notFp

\* the main goroutine: TestTraceRoute, discoverHops and its probeHop calls
TRMain ==
    \/ DiscoverProbe
    \/ DiscoverStore
    \/ TraceRouteDeliver
    \/ ProbeDial(0)
    \/ EndTimeRendezvous(0)
    \/ PeerAddrRendezvous(0)

\* the ICMP receiver goroutine of caller c's probe
TRReceiver(c) == ReceiveICMP(c) \/ CheckICMP(c)

(***************************************************************************)
(* Measurement server (src/server.go): the test registry, the TCP          *)
(* connection handlers, the UDP packet workers and their reapers.          *)
(*                                                                         *)
(* Time is counted in milliseconds and advances in steps of ClockStepMs.   *)
(* A Test's lastAccess is kept as its age, now - lastAccess.               *)
(***************************************************************************)
\* hosts that open TCP connections
Remotes == {"10.2.0.1", "10.2.0.2"}

\* hosts that send UDP datagrams
UdpRemotes == {"10.2.0.1"}

TestIds == 1..MaxEvents

Handlers == 1..NumTcp

Workers == 1..NumUdp

\* time.Sleep(200 * time.Millisecond) (line 280)
ReaperSleepMs == 200

\* time.Since(v.lastAccess) > (200 * time.Millisecond) (line 285)
InactiveMs == 200

\* time.Since(v.lastAccess) > (2 * time.Second) (line 290)
DeleteMs == 2000

\* time.Sleep(2 * time.Second) (line 133)
GraceSleepMs == 2000

ClockStepMs == ReaperSleepMs

\* ages are not counted beyond this
AgeCap == DeleteMs + 2 * ReaperSleepMs

Min(a, b) == IF a < b THEN a ELSE b

\* a Test object; news, hdrs, rx, rxBytes and bwClosed are history: callers
\* that saw isNew, emitTestHdr calls, datagrams and bytes workers handled
\* for it, and bufferSize times completed iterations of the bandwidth
\* routines that have ended
NoTest ==
    [alloc |-> FALSE, inReg |-> FALSE, remote |-> "", proto |-> "",
     refCount |-> 0, cps |-> 0, pps |-> 0, bw |-> 0, lastAge |-> 0,
     isActive |-> FALSE, news |-> 0, hdrs |-> 0, rx |-> 0, rxBytes |-> 0,
     bwClosed |-> 0]

\* the Tests the registry holds for a key (remote, protocol, All)
Lookup(ts, remote, proto) ==
    {t \in TestIds :
        ts[t].inReg /\ ts[t].remote = remote /\ ts[t].proto = proto}

\* the identity of the next Test object to be created
FreshId(ts) ==
    CHOOSE t \in TestIds :
        ~ts[t].alloc /\ \A u \in TestIds : u < t => ts[u].alloc

NewTest(remote, proto) ==
    [NoTest EXCEPT !.alloc = TRUE, !.inReg = TRUE, !.remote = remote,
                   !.proto = proto, !.refCount = 1, !.isActive = TRUE]

\* createOrGetTest that never finds an existing Test
createAlways(ts, remote, proto) ==
    [tests |-> [ts EXCEPT ![FreshId(ts)] = NewTest(remote, proto)],
     test |-> FreshId(ts), isNew |-> TRUE]

\* createOrGetTest(remote, protocol, All), under the registry's lock: the
\* Test of the key with one more reference, created if there is none
createOrGetTest(ts, remote, proto) ==
    LET found == Lookup(ts, remote, proto)
    IN  IF found # {}
        THEN LET t == CHOOSE t \in found : TRUE
             IN  [tests |-> [ts EXCEPT ![t].refCount = @ + 1],
                  test |-> t, isNew |-> FALSE]
        ELSE [tests |-> [ts EXCEPT ![FreshId(ts)] = NewTest(remote, proto)],
              test |-> FreshId(ts), isNew |-> TRUE]

\* safeDeleteTest(t), under the registry's lock: drop one reference, and
\* remove the Test from the registry with the last
safeDeleteTest(ts, t) ==
    [ts EXCEPT ![t].refCount = @ - 1,
               ![t].inReg = IF ts[t].refCount = 1 THEN FALSE ELSE @]

\* A Test that is out of the registry and that no goroutine's variable
\* refers to is garbage: its memory is reclaimed (wk: the workers' locals)
Collect(ts, wk) ==
    [t \in TestIds |->
        IF /\ ts[t].alloc
           /\ ~ts[t].inReg
           /\ \A w \in DOMAIN wk : wk[w].test # t /\ wk[w].dg # t
        THEN [NoTest EXCEPT !.remote = ts[t].remote, !.proto = ts[t].proto]
        ELSE ts[t]]

\* history: a caller of createOrGetTest was told isNew
Observe(ts, t, isNew) == IF isNew THEN [ts EXCEPT ![t].news = @ + 1] ELSE ts

\* first messages a peer may send: a SYN, another EthrMsg type, or bytes
\* that do not decode
MsgKinds == {"syn", "other", "garbage"}

\* a handshake that answers before it looks at the message
handshakeAckFirst(kind, writeOk) ==
    [err |-> kind # "syn" \/ ~writeOk, ack |-> TRUE]

\* handshakeWithClient (lines 58-82): err is what it returns, ack whether
\* an ACK was written to conn
handshakeWithClient(kind, writeOk) ==
    IF kind # "syn"
    THEN [err |-> TRUE, ack |-> FALSE]
    ELSE [err |-> ~writeOk, ack |-> TRUE]

(***************************************************************************)
(* srvrHandleNewTcpConn (lines 100-161)                                    *)
(***************************************************************************)
\* type and size are testID.Type and clientParam.BufferSize of the SYN.
\* History: prior is the Test of a connection from the same remote that was
\* still open, or closed less than GraceSleepMs ago, at accept (0 if none);
\* first is the kind of the first message read; iters counts the iterations
\* of the bandwidth routine that completed
FreeHandler ==
    [pc |-> "free", remote |-> "", test |-> 0, isNew |-> FALSE, ack |-> FALSE,
     left |-> 0, sinceDone |-> 0, prior |-> 0, first |-> "none",
     type |-> "none", size |-> 0, iters |-> 0]

\* the remote's connections that are open or closed less than 2 s ago
Recent(h, r) ==
    {handler[g].test : g \in {g \in Handlers \ {h} :
        /\ handler[g].remote = r
        /\ handler[g].test # 0
        /\ \/ handler[g].pc \in {"serve", "run"}
           \/ handler[g].sinceDone < GraceSleepMs}}

\* the handler returns: the deferred function starts its sleep (line 133)
AtReturn(hrec) ==
    [hrec EXCEPT !.pc = "grace", !.left = GraceSleepMs, !.sinceDone = 0]

\* lines 100-139: a connection is accepted and its handler takes the Test
TcpAccept(h) ==
    /\ handler[h].pc = "free"
    /\ events < MaxEvents
    /\ events' = events + 1
    /\ \/ \* SplitHostPort fails (lines 105-113): no Test is taken
          /\ handler' = [handler EXCEPT ![h] = FreeHandler]
          /\ UNCHANGED tests
       \/ \E r \in Remotes :
            LET co == createOrGetTest(tests, r, "TCP")
                ts1 == Observe(co.tests, co.test, co.isNew)
            IN  /\ tests' = [ts1 EXCEPT
                       ![co.test].hdrs = IF co.isNew THEN @ + 1 ELSE @,
                       ![co.test].cps = @ + 1]
                /\ handler' = [handler EXCEPT ![h] =
                       [FreeHandler EXCEPT
                           !.pc = "serve", !.remote = r, !.test = co.test,
                           !.isNew = co.isNew,
                           !.prior = IF Recent(h, r) = {} THEN 0
                                     ELSE CHOOSE t \in Recent(h, r) : TRUE]]
    /\ UNCHANGED <<worker, umap, reaper, idle>>
    /\ UNCHANGED notSrv

\* test types a SYN may name
TestKinds == {"Bandwidth", "Latency", "Cps"}

\* clientParam.BufferSize
BufferSizes == 1..MaxBytes

\* lines 142-160: the first read, the handshake and the dispatch
TcpServe(h) ==
    /\ handler[h].pc = "serve"
    /\ \/ \* conn.Read fails (lines 143-146)
          handler' = [handler EXCEPT ![h] = AtReturn(@)]
       \/ \E kind \in MsgKinds, writeOk \in BOOLEAN, type \in TestKinds,
             size \in BufferSizes :
            LET hs == handshakeWithClient(kind, writeOk)
                hrec == [handler[h] EXCEPT !.ack = hs.ack, !.first = kind]
            IN  handler' = [handler EXCEPT ![h] =
                    IF hs.err \/ type = "Cps"
                    THEN AtReturn(hrec)
                    ELSE [hrec EXCEPT
                             !.pc = "run", !.type = type,
                             !.size = IF type = "Bandwidth" THEN size
                                      ELSE 0]]
    /\ UNCHANGED <<tests, events, worker, umap, reaper, idle>>
    /\ UNCHANGED notSrv

\* an iteration that adds twice the buffer size
BwAddTwice(size) == 2 * size

\* atomic.AddUint64(&test.testResult.bw, uint64(size)) (line 180)
BwAdd(size) == size

\* lines 170-180: one iteration of srvrRunTCPBandwidthTest in which
\* conn.Write or io.ReadFull returns no error
TcpBwIter(h) ==
    /\ handler[h].pc = "run"
    /\ handler[h].type = "Bandwidth"
    /\ handler[h].iters < MaxIters
    /\ tests' = [tests EXCEPT
           ![handler[h].test].bw = @ + BwAdd(handler[h].size)]
    /\ handler' = [handler EXCEPT ![h].iters = @ + 1]
    /\ UNCHANGED <<events, worker, umap, reaper, idle>>
    /\ UNCHANGED notSrv

\* lines 176-179, 190-205: an I/O error ends the bandwidth or latency
\* routine, nothing is added to bw, and the handler returns
TcpRunEnd(h) ==
    /\ handler[h].pc = "run"
    /\ tests' = [tests EXCEPT ![handler[h].test].bwClosed =
           @ + handler[h].size * handler[h].iters]
    /\ handler' = [handler EXCEPT ![h] =
           AtReturn([@ EXCEPT !.type = "none", !.size = 0, !.iters = 0])]
    /\ UNCHANGED <<events, worker, umap, reaper, idle>>
    /\ UNCHANGED notSrv

\* the deferred function that deletes without sleeping
ReleaseReadyAtOnce(left) == TRUE

\* time.Sleep(2 * time.Second) has returned (line 133)
ReleaseReady(left) == left = 0

\* lines 132-135 and 101: after the sleep, safeDeleteTest; conn is closed
TcpRelease(h) ==
    /\ handler[h].pc = "grace"
    /\ ReleaseReady(handler[h].left)
    /\ tests' = Collect(safeDeleteTest(tests, handler[h].test), worker)
    /\ handler' = [handler EXCEPT ![h] =
           IF handler[h].sinceDone >= GraceSleepMs THEN FreeHandler
           ELSE [@ EXCEPT !.pc = "free"]]
    /\ UNCHANGED <<events, worker, umap, reaper, idle>>
    /\ UNCHANGED notSrv

(***************************************************************************)
(* srvrRunUDPPacketHandler (lines 266-330)                                 *)
(***************************************************************************)
\* test is the `test` of line 306 (0 is nil), n the byte count; dg is
\* history: the Test the datagram in hand belongs to
ReadingWorker ==
    [pc |-> "read", test |-> 0, n |-> 0, dg |-> 0, why |-> "none"]

\* lines 299-321: a datagram is read; a remote not in the local map gets
\* its Test from the registry.  The `test` declared at line 308 is local to
\* the if-block: the `test` of line 306 stays nil when the key was not found.
UdpRead(w) ==
    /\ worker[w].pc = "read"
    /\ events < MaxEvents
    /\ events' = events + 1
    /\ \E r \in UdpRemotes, n \in 1..MaxBytes :
         /\ idle' = [idle EXCEPT ![r] = 0]
         /\ IF umap[w][r] # 0
            THEN /\ worker' = [worker EXCEPT ![w] =
                        [ReadingWorker EXCEPT !.pc = "update",
                                              !.test = umap[w][r],
                                              !.n = n, !.dg = umap[w][r]]]
                 /\ UNCHANGED <<tests, umap>>
            ELSE \E kind \in MsgKinds, writeOk \in BOOLEAN :
                   LET co == createOrGetTest(tests, r, "UDP")
                       ts1 == Observe(co.tests, co.test, co.isNew)
                       hs == handshakeWithClient(kind, writeOk)
                   IN  /\ umap' = [umap EXCEPT ![w][r] = co.test]
                       /\ IF co.isNew /\ hs.err
                          THEN \* return (line 316)
                               /\ worker' = [worker EXCEPT ![w] =
                                      [ReadingWorker EXCEPT
                                          !.pc = "exited",
                                          !.why = "handshake"]]
                               /\ tests' = ts1
                          ELSE /\ worker' = [worker EXCEPT ![w] =
                                      [ReadingWorker EXCEPT
                                          !.pc = "update", !.test = 0,
                                          !.n = n, !.dg = co.test]]
                               /\ tests' = [ts1 EXCEPT ![co.test].hdrs =
                                      IF co.isNew THEN @ + 1 ELSE @]
    /\ UNCHANGED <<handler, reaper>>
    /\ UNCHANGED notSrv

\* lines 299-303 and 298: ReadFromUDP fails and the loop ends
UdpReadError(w) ==
    /\ worker[w].pc = "read"
    /\ worker' = [worker EXCEPT ![w] =
           [ReadingWorker EXCEPT !.pc = "exited", !.why = "readError"]]
    /\ UNCHANGED <<tests, handler, events, umap, reaper, idle>>
    /\ UNCHANGED notSrv

\* lines 322-328: account the datagram on `test` unless it is nil
UdpUpdate(w) ==
    /\ worker[w].pc = "update"
    /\ LET t == worker[w].test
           d == worker[w].dg
           n == worker[w].n
           ts1 == [tests EXCEPT ![d].rx = @ + 1, ![d].rxBytes = @ + n]
       IN  tests' = Collect(IF t # 0
                            THEN [ts1 EXCEPT ![t].lastAge = 0,
                                             ![t].pps = @ + 1,
                                             ![t].bw = @ + n]
                            ELSE ts1,
                            [worker EXCEPT ![w] = ReadingWorker])
    /\ worker' = [worker EXCEPT ![w] = ReadingWorker]
    /\ UNCHANGED <<handler, events, umap, reaper, idle>>
    /\ UNCHANGED notSrv

SleepingReaper == [pc |-> "sleep", left |-> ReaperSleepMs, todo |-> {}]

\* line 280 returns and `for k, v := range tests` starts (line 281); over
\* an empty map the loop ends at once and the reaper sleeps again
ReaperWake(w) ==
    /\ reaper[w].pc = "sleep"
    /\ reaper[w].left = 0
    /\ reaper' = [reaper EXCEPT ![w] =
           IF \A r \in UdpRemotes : umap[w][r] = 0
           THEN SleepingReaper
           ELSE [pc |-> "iter", left |-> 0,
                 todo |-> {r \in UdpRemotes : umap[w][r] # 0}]]
    /\ UNCHANGED <<tests, handler, events, worker, umap, idle>>
    /\ UNCHANGED notSrv

\* a reaper that deletes only after twice the period of inactivity
ExpiredLate(age) == age > 2 * DeleteMs

\* time.Since(v.lastAccess) > (2 * time.Second) (line 290)
Expired(age) == age > DeleteMs

\* lines 282-294: one entry of the range loop; after the last entry the
\* reaper is back at line 280
ReaperVisit(w) ==
    /\ reaper[w].pc = "iter"
    /\ \E r \in reaper[w].todo :
         LET v == umap[w][r]
             age == tests[v].lastAge
             ts1 == IF age > InactiveMs
                    THEN [tests EXCEPT ![v].isActive = FALSE]
                    ELSE tests
         IN  /\ reaper' = [reaper EXCEPT ![w] =
                    IF reaper[w].todo = {r} THEN SleepingReaper
                    ELSE [@ EXCEPT !.todo = @ \ {r}]]
             /\ IF Expired(age)
                THEN /\ tests' = Collect(safeDeleteTest(ts1, v), worker)
                     /\ umap' = [umap EXCEPT ![w][r] = 0]
                ELSE /\ tests' = ts1
                     /\ UNCHANGED umap
    /\ UNCHANGED <<handler, events, worker, idle>>
    /\ UNCHANGED notSrv

\* ClockStepMs pass for the connection handlers: the deferred sleeps of
\* line 133 run down.  time.Sleep lasts at least its duration, so a handler
\* whose sleep is over may still be waiting to run.
TcpTick ==
    /\ \E h \in Handlers : handler[h].pc # "free" \/ handler[h].test # 0
    /\ handler' = [h \in Handlers |->
           IF handler[h].pc = "grace"
           THEN [handler[h] EXCEPT
                    !.left = @ - Min(@, ClockStepMs),
                    !.sinceDone = Min(GraceSleepMs, @ + ClockStepMs)]
           ELSE IF handler[h].pc = "free" /\ handler[h].test # 0
           THEN IF handler[h].sinceDone + ClockStepMs >= GraceSleepMs
                THEN FreeHandler
                ELSE [handler[h] EXCEPT !.sinceDone = @ + ClockStepMs]
           ELSE handler[h]]
    /\ UNCHANGED <<tests, events, worker, umap, reaper, idle>>
    /\ UNCHANGED notSrv

\* ClockStepMs pass for the packet workers and their reapers.  A reaper
\* whose sleep is over runs its loop first, and a worker accounts the
\* datagram it has read first: both take no time on this scale.
UdpTick ==
    /\ \A w \in Workers :
         /\ reaper[w].pc = "sleep"
         /\ reaper[w].left > 0
         /\ worker[w].pc # "update"
    /\ reaper' = [w \in Workers |->
           [reaper[w] EXCEPT !.left = @ - Min(@, ClockStepMs)]]
    /\ tests' = [t \in TestIds |->
           IF tests[t].inReg
           THEN [tests[t] EXCEPT
                    !.lastAge = Min(AgeCap, @ + ClockStepMs)]
           ELSE tests[t]]
    /\ idle' = [r \in UdpRemotes |-> Min(AgeCap, idle[r] + ClockStepMs)]
    /\ UNCHANGED <<handler, events, worker, umap>>
    /\ UNCHANGED notSrv

SrvInit ==
    /\ tests = [t \in TestIds |-> NoTest]
    /\ handler = [h \in Handlers |-> FreeHandler]
    /\ events = 0
    /\ worker = [w \in Workers |-> ReadingWorker]
    /\ umap = [w \in Workers |-> [r \in UdpRemotes |-> 0]]
    /\ reaper = [w \in Workers |-> SleepingReaper]
    /\ idle = [r \in UdpRemotes |-> AgeCap]

TcpNext ==
    \E h \in Handlers :
        \/ TcpAccept(h)
        \/ TcpServe(h)
        \/ TcpBwIter(h)
        \/ TcpRunEnd(h)
        \/ TcpRelease(h)

UdpNext ==
    \E w \in Workers :
        \/ UdpRead(w)
        \/ UdpReadError(w)
        \/ UdpUpdate(w)
        \/ ReaperWake(w)
        \/ ReaperVisit(w)

(***************************************************************************)
(* Specifications.                                                         *)
(***************************************************************************)
InitLat == LatInit /\ TRIdle /\ SrvInit /\ FpIdle

NextLat == LatNext

SpecLat == InitLat /\ [][NextLat]_vars

InitTR == TRInit /\ LatIdle /\ SrvInit /\ FpIdle

NextTR == TRMain \/ TRReceiver(0)

SpecTR == InitTR /\ [][NextTR]_vars

\* every goroutine that can take a step eventually takes one
FairSpecTR ==
    /\ SpecTR
    /\ WF_vars(TRMain)
    /\ WF_vars(TRReceiver(0))

\* TestTraceRoute in MTR mode from the return of discoverHops on, and the
\* probeHops goroutines it starts
InitMtr ==
    /\ \E r \in Routers \cup {""}, e2 \in Elapsed : PostDiscovery(r, 1, e2)
    /\ LatIdle
    /\ SrvInit
    /\ FpIdle

NextMtr ==
    \/ TraceRouteDeliver
    \/ CloseDone
    \/ \E j \in 1..MaxHopsBound : MtrLoop(j) \/ TRReceiver(j)

SpecMtr == InitMtr /\ [][NextMtr]_vars

\* every goroutine that can take a step eventually takes one
FairSpecMtr ==
    /\ SpecMtr
    /\ WF_vars(TraceRouteDeliver)
    /\ \A j \in 1..MaxHopsBound :
           WF_vars(MtrLoop(j)) /\ WF_vars(TRReceiver(j))

InitSrv == SrvInit /\ LatIdle /\ TRIdle /\ FpIdle

InitFp == FpInit /\ LatIdle /\ TRIdle /\ SrvInit

NextFp == FpCheck

SpecFp == InitFp /\ [][NextFp]_vars

NextTcp == TcpNext \/ TcpTick

SpecTcp == InitSrv /\ [][NextTcp]_vars

NextUdp == UdpNext \/ UdpTick

SpecUdp == InitSrv /\ [][NextUdp]_vars

(***************************************************************************)
(* Claims about the traceroute client.                                     *)
(***************************************************************************)
\* C1: every call of probeHop eventually returns; in particular a probe
\* whose dial failed and whose receiver sees no matching TimeExceeded
\* returns once the receiver's deadline has passed.
C1_ProbeReturns ==
    (probe[0].pc \in {"dial", "waitEnd", "waitPeer"}) ~> (probe[0].pc = "ret")

\* C2: when no dial ever succeeds, the failed result TestTraceRoute delivers
\* carries the hops gathered so far, one entry per probed TTL.
C2_PartialHopsOnFailure ==
    (result.delivered /\ ~result.Success) =>
        /\ dRet.err = "ErrNotExist"
        /\ Len(result.Hops) = Len(issued)
        /\ \A j \in 1..Len(issued) : Core(result.Hops[j]) = probeLog[j]

\* C3: when the first successful dial happens at TTL k, no probe with a
\* TTL above k is issued, and discoverHops returns exactly k entries in TTL
\* order, entry j being what the probe at TTL j left in its HopData (addr
\* empty when nothing was received), the last with addr = destination IP.
C3_FirstSuccessEndsDiscovery ==
    /\ firstDialOk # 0 =>
           /\ firstDialOk \in 1..maxHops
           /\ issued = [j \in 1..firstDialOk |-> j]
           /\ mainPc \in {"returned", "done"} => dRet.err = "none"
    /\ (mainPc \in {"returned", "done"} /\ dRet.err = "none") =>
           /\ firstDialOk # 0
           /\ Len(dRet.hops) = firstDialOk
           /\ \A j \in 1..Len(dRet.hops) :
                  /\ Core(dRet.hops[j]) = probeLog[j]
                  /\ (dRet.hops[j].Addr = "") = (dRet.hops[j].Rcvd = 0)
           /\ dRet.hops[Len(dRet.hops)].Addr = RemoteIP

C3_Witness ==
    /\ mainPc = "done"
    /\ firstDialOk = 2
    /\ maxHops = 3
    /\ Len(dRet.hops) = 2
    /\ dRet.hops[1].Addr = ""
    /\ dRet.hops[2].Addr = RemoteIP

\* probes of hop j that have counted themselves in Sent and not yet in Rcvd
\* or Lost
InFlight(j) ==
    IF j \in loops /\ probe[j].pc \in {"waitEnd", "waitPeer"} THEN 1 ELSE 0

\* C12: for every HopData Sent = Rcvd + Lost + probes in flight (so Sent >=
\* Rcvd + Lost, with equality when no probe is in progress), and a probe
\* that cannot open its ICMP listener leaves the HopData as it was.
C12_SentRcvdLost ==
    /\ [](\A j \in 1..Len(hops) :
             hops[j].Sent = hops[j].Rcvd + hops[j].Lost + InFlight(j))
    /\ [][\A j \in 1..Len(hops) :
             (probe[j].pc = "idle" /\ probe'[j].pc = "ret") =>
                 hops'[j] = hops[j]]_vars

C12_Witness ==
    \E j \in loops :
        /\ probe[j].pc = "idle"
        /\ hops[j].Sent = 3
        /\ hops[j].Rcvd = 2
        /\ hops[j].Lost = 1

\* C13: every HopData with Rcvd > 0 has Best <= Last <= Worst and
\* Best <= Total / Rcvd <= Worst, after discovery and any MTR iterations.
C13_BestLastWorst ==
    \A j \in 1..Len(hops) :
        hops[j].Rcvd > 0 =>
            /\ hops[j].Best <= hops[j].Last
            /\ hops[j].Last <= hops[j].Worst
            /\ hops[j].Best <= hops[j].Total \div hops[j].Rcvd
            /\ hops[j].Total \div hops[j].Rcvd <= hops[j].Worst

C13_Witness ==
    \E j \in loops :
        /\ hops[j].Rcvd = 3
        /\ hops[j].Last = 1
        /\ hops[j].Worst = 2
        /\ hops[j].Total = 4

SetMin(S) == CHOOSE x \in S : \A y \in S : x <= y

\* C14: a HopData that started zero and has aggregated successful probes
\* has Best equal to the smallest of their elapsed times.
C14_BestIsMinimum ==
    \A j \in 1..Len(hops) :
        hops[j].Rcvd > 0 => hops[j].Best = SetMin(seen[j])

\* C16: once test.Done is closed, every probeHops goroutine eventually
\* returns.
C16_DoneStopsLoops ==
    done ~> (\A j \in loops : mtr[j].pc = "stopped")

\* who answered the probe of hop j that is about to end: the peer the
\* receiver hands over, or the destination a successful dial reached
Responder(j) ==
    IF probe[j].pc = "waitPeer" THEN receiver[j].peerAddr ELSE RemoteIP

\* the aggregate of a HopData that calcHopData writes
Aggregate(hd) == <<hd.Last, hd.Best, hd.Worst, hd.Total, hd.Rcvd>>

\* C17: after discovery no step changes a hop's Addr; a step changes
\* Last/Best/Worst/Total/Rcvd of hop j only when the responder is
\* hops[j].Addr; and a re-probe that ends with an error changed only Sent
\* and Lost.
C17_AddrSticky ==
    [][\A j \in 1..Len(hops) :
          mainPc = "done" =>
              /\ hops'[j].Addr = hops[j].Addr
              /\ Aggregate(hops'[j]) # Aggregate(hops[j]) =>
                     Responder(j) = hops[j].Addr
              /\ (/\ probe[j].pc \in {"dial", "waitPeer"}
                  /\ probe'[j].pc = "ret"
                  /\ probe'[j].err = "lost") =>
                     /\ Aggregate(hops'[j]) = Aggregate(hops[j])
                     /\ hops'[j].Lost = hops[j].Lost + 1
                     /\ hops'[j].Sent \in {hops[j].Sent, hops[j].Sent + 1}
                     /\ Responder(j) # hops[j].Addr]_vars

C17_Witness ==
    \E j \in loops :
        /\ probe[j].pc = "ret"
        /\ probe[j].err = "lost"
        /\ probe[j].isLast
        /\ hops[j].Addr \in Routers
        /\ hops[j].Lost = 1
        /\ hops[j].Rcvd = 1

\* C18: while probeHop dials or waits, its receiver is running on the open
\* listener; a matching TimeExceeded the receiver got while the dial had not
\* yet returned is handed over when the dial fails, and the probe succeeds.
C18_ReceiverBeforeDial ==
    \A c \in Callers :
        /\ probe[c].pc \in {"dial", "waitEnd", "waitPeer"} =>
               receiver[c].pc \in {"recv", "check", "sendEnd", "sendPeer"}
        /\ (probe[c].pc = "ret" /\ probe[c].early /\ ~probe[c].isLast) =>
               probe[c].err = "none"

C18_Witness ==
    /\ probe[0].pc = "ret"
    /\ probe[0].early
    /\ ~probe[0].isLast
    /\ probe[0].err = "none"
    /\ hopData.Rcvd = 1
    /\ hopData.Addr \in Routers

\* C21: the receiver goroutine of every probe terminates: once probeHop has
\* returned, also after a successful dial that leaves both channels unread,
\* no receiver of that probe is left looping or blocked on a channel send.
C21_ReceiverTerminates == orphans = 0

\* C19: the receiver of the probe at TTL k accepts a TimeExceeded only if
\* it quotes the probe sent at TTL k.
C19_OnlyOwnReplies ==
    (fp.pc = "checked" /\ fp.accepted) => fp.quoted = fp.hop

(***************************************************************************)
(* Claims about the test registry, the TCP handlers and the UDP workers.   *)
(***************************************************************************)
\* the workers whose local map holds Test t
Holders(t) == {w \in Workers : \E r \in UdpRemotes : umap[w][r] = t}

\* C4: whatever the interleaving of workers and reapers, the registry holds
\* at most one Test per key (remote, protocol, All), and of the callers of
\* createOrGetTest that obtained a registered Test exactly one was told
\* isNew = true.
C4_OneTestPerKey ==
    /\ \A t, u \in TestIds :
           (/\ tests[t].inReg /\ tests[u].inReg
            /\ tests[t].remote = tests[u].remote
            /\ tests[t].proto = tests[u].proto) => t = u
    /\ \A t \in TestIds : tests[t].inReg => tests[t].news = 1

C4_Witness ==
    \E t \in TestIds :
        /\ tests[t].inReg
        /\ tests[t].refCount = 2
        /\ tests[t].news = 1
        /\ Holders(t) = Workers

\* C5: the Test a TCP handler obtained is in the registry while the
\* connection is served and for 2 s after its handler finished; a connection
\* that arrives while another from the same remote is open, or less than 2 s
\* after it finished, gets that same Test and isNew = false.
C5_GraceKeepsTestShared ==
    \A h \in Handlers :
        /\ (/\ handler[h].test # 0
            /\ \/ handler[h].pc \in {"serve", "run"}
               \/ handler[h].sinceDone < GraceSleepMs)
               => tests[handler[h].test].inReg
        /\ handler[h].prior # 0 =>
               /\ handler[h].test = handler[h].prior
               /\ ~handler[h].isNew

C5_Witness ==
    \E h, g \in Handlers :
        /\ handler[g].pc = "grace"
        /\ handler[g].left \in 1..(GraceSleepMs - 1)
        /\ handler[h].pc = "serve"
        /\ handler[h].remote = handler[g].remote
        /\ handler[h].prior = handler[g].test
        /\ ~handler[h].isNew
        /\ tests[handler[h].test].cps = 3
        /\ tests[handler[h].test].news = 1

\* C6: every datagram a worker has handled, the first from a remote
\* included, counted 1 in pps and its byte count in bw of its Test, and set
\* the Test's lastAccess to the time of the read.
C6_EveryDatagramAccounted ==
    \A t \in TestIds :
        /\ tests[t].pps = tests[t].rx
        /\ tests[t].bw = tests[t].rxBytes
        /\ (/\ tests[t].inReg
            /\ \A w \in Workers : worker[w].pc = "update" => worker[w].dg # t)
               => tests[t].lastAge = idle[tests[t].remote]

\* C7: a UDP Test whose remote has been silent for 2 s is out of a worker's
\* map, released with safeDeleteTest, when that worker's next reaper pass
\* ends, at most ReaperSleepMs later; a Test no worker holds is not in the
\* registry.
C7_IdleTestReaped ==
    /\ \A w \in Workers, r \in UdpRemotes :
           umap[w][r] # 0 =>
               /\ idle[r] <= DeleteMs + ReaperSleepMs
               /\ reaper[w].pc = "sleep" =>
                      idle[r] <= DeleteMs + ReaperSleepMs - reaper[w].left
    /\ \A t \in TestIds :
           tests[t].inReg =>
               /\ tests[t].refCount = Cardinality(Holders(t))
               /\ Holders(t) # {}

C7_Witness ==
    \E r \in UdpRemotes :
        /\ idle[r] = DeleteMs + ReaperSleepMs
        /\ \A w \in Workers :
               umap[w][r] = 0 /\ reaper[w] = SleepingReaper
        /\ Lookup(tests, r, "UDP") = {}
        /\ \E t \in TestIds : ~tests[t].alloc /\ tests[t].remote = r

\* C8: a worker that has stopped has stopped because ReadFromUDP failed.
C8_WorkerStopsOnlyOnReadError ==
    \A w \in Workers :
        worker[w].pc = "exited" => worker[w].why = "readError"

\* C20: while the reaper of a worker is inside its range loop over the
\* worker's map (lines 281-295), the worker, a different goroutine, does not
\* look up or insert into that map (lines 306-310).
C20_MapSingleOwner ==
    [][\A w \in Workers : reaper[w].pc = "iter" => ~UdpRead(w)]_vars

\* the bytes the running bandwidth routines on Test t have moved:
\* bufferSize times completed iterations, summed over the handlers in S
RECURSIVE RunningBytes(_, _)
RunningBytes(t, S) ==
    IF S = {} THEN 0
    ELSE LET h == CHOOSE g \in S : TRUE
             own == IF handler[h].pc = "run" /\ handler[h].test = t
                    THEN handler[h].size * handler[h].iters
                    ELSE 0
         IN  own + RunningBytes(t, S \ {h})

\* C11: bw of a Test equals bufferSize times the completed iterations,
\* summed over all bandwidth connections on it, ended or running, and no
\* step makes the bw of a registered Test smaller.
C11_BwIsSumAndMonotonic ==
    /\ [](\A t \in TestIds :
             tests[t].bw = tests[t].bwClosed + RunningBytes(t, Handlers))
    /\ [][\A t \in TestIds :
             (tests[t].inReg /\ tests'[t].inReg) =>
                 tests'[t].bw >= tests[t].bw]_vars

C11_Witness ==
    \E h, g \in Handlers :
        /\ h # g
        /\ handler[h].pc = "run" /\ handler[g].pc = "run"
        /\ handler[h].test = handler[g].test
        /\ handler[h].size = 2 /\ handler[h].iters = 2
        /\ handler[g].size = 1 /\ handler[g].iters = 1
        /\ tests[handler[h].test].bw = 5

\* C15: a connection whose first message does not decode or is not a SYN
\* gets no ACK and no bandwidth or latency routine, and its handler
\* returns; an ACK is written only after a SYN was read.
C15_InvalidHandshakeDropped ==
    \A h \in Handlers :
        /\ handler[h].first \in {"other", "garbage"} =>
               /\ ~handler[h].ack
               /\ handler[h].pc \in {"grace", "free"}
               /\ handler[h].iters = 0
        /\ handler[h].ack => handler[h].first = "syn"
        /\ handler[h].pc = "run" => handler[h].first = "syn"

C15_Witness ==
    \E h, g \in Handlers :
        /\ handler[g].pc = "grace"
        /\ handler[g].first = "garbage"
        /\ handler[g].isNew
        /\ handler[h].pc = "run"
        /\ handler[h].first = "syn"
        /\ handler[h].ack
        /\ handler[h].prior = handler[g].test

\* C22: a Test for which a worker has accounted a datagram is active until
\* the reaper next sees more than 200 ms of inactivity: a Test whose last
\* accounted datagram is at most 200 ms old has isActive = TRUE, also when
\* the reaper had marked it inactive before that datagram.
C22_DatagramReactivates ==
    \A t \in TestIds :
        (tests[t].inReg /\ tests[t].pps > 0 /\ tests[t].lastAge <= InactiveMs)
            => tests[t].isActive

(***************************************************************************)
(* Claims about the latency server.                                        *)
(***************************************************************************)
\* C9: for every rttCount >= 1 and every batch, the values the latency
\* server reports satisfy min <= p50 <= p90 <= p95 <= p99 <= p999 <= p9999
\* <= max.
C9_PercentilesOrdered ==
    latPc = "emitted" =>
        /\ emitted.min <= emitted.p50
        /\ emitted.p50 <= emitted.p90
        /\ emitted.p90 <= emitted.p95
        /\ emitted.p95 <= emitted.p99
        /\ emitted.p99 <= emitted.p999
        /\ emitted.p999 <= emitted.p9999
        /\ emitted.p9999 <= emitted.max

\* C10: with rttCount = 1 the batch is reported (no index is out of range),
\* and min, max, avg and every percentile equal the single sample.
C10_SingleSample ==
    rttCount = 1 =>
        /\ latPc # "panic"
        /\ latPc = "emitted" =>
               \E v \in SampleVals :
                   /\ latencyNumbers[v] = 1
                   /\ latency = v
                   /\ emitted = [avg |-> v, min |-> v, max |-> v, p50 |-> v,
                                 p90 |-> v, p95 |-> v, p99 |-> v, p999 |-> v,
                                 p9999 |-> v]

C10_Witness ==
    /\ rttCount = 1
    /\ latPc = "emitted"
    /\ latencyNumbers[2] = 1
    /\ emitted.p9999 = 2

\* C23: for every rttCount from 1 to 2^32 - 1 the indices computed for p50,
\* p90, p95 and p99 in 32-bit unsigned arithmetic, and those for p999 and
\* p9999, lie in 0..rttCount-1: no batch ends in an out-of-range read.
C23_IndicesInRange ==
    latPc \in {"emitted", "panic"} =>
        /\ latPc # "panic"
        /\ \A k \in 3..8 : U32Below(LatIndices(rttCount)[k], rttCount)

====
